---------------------------- MODULE Spec2Model ----------------------------
(***************************************************************************)
(* A model of ec2.py, the EC2 dynamic inventory script.                    *)
(*                                                                         *)
(* Strings that take part in group names are sequences of one-character    *)
(* strings, so that to_safe() can be computed character by character and   *)
(* two different attribute values can collide after sanitization.          *)
(* Addresses (the members of the groups, the keys of the index) are never  *)
(* sanitized or compared with group names, and are plain strings.          *)
(***************************************************************************)
EXTENDS Integers, Sequences, FiniteSets, TLC

VARIABLES
    word,        \* to_safe: the argument
    once,        \* {to_safe(word)}, or {} before the call
    twice,       \* {to_safe(to_safe(word))}, or {} before the call
    cacheFile,   \* the file at CACHE_FILE_PATH
    indexFile,   \* the file at CACHE_INDEX_PATH
    pc,          \* per invocation: the place in the script
    inventory,   \* per invocation: the inventory mapping in memory
    index,       \* per invocation: the index mapping in memory
    out,         \* per invocation: what was printed as the result
    exitCode,    \* per invocation: the exit status, -1 while running
    origin,      \* per invocation: where inventory and index came from
    chk,         \* per invocation: what cache_expired() observed, until it moves on
    consulted,   \* per invocation: what get_host_info() did
    disturbed,   \* a refresh was cut short while writing, or two invocations
                 \* ran side by side
    use_route53, \* USE_ROUTE53
    zones,       \* the provider's Route53 zones
    records,     \* update_inventory's local `records`
    region_i,    \* update_inventory's loop: position in REGIONS
    fetched,     \* the resources handed to add_instance / add_rds_instance
    connFail,    \* the (region, fetcher) pairs whose connection failed
    files0       \* the two cache files as they were when the refresh began

vars == <<word, once, twice, cacheFile, indexFile, pc,
          inventory, index, out, exitCode, origin, chk, consulted, disturbed,
          use_route53, zones, records, region_i, fetched, connFail, files0>>

safeVars == <<word, once, twice>>
fileVars == <<cacheFile, indexFile>>
procVars == <<pc, inventory, index, out, exitCode, origin, chk, consulted>>
cliVars  == <<disturbed>>
loopVars == <<use_route53, zones, records, region_i, fetched, connFail, files0>>


---------------------------------------------------------------------------
(* Bounds of the model *)

MaxLen  == 3   \* longest argument of to_safe explored
MaxTime == 2   \* the oldest a cache file gets
MaxRes  == 2   \* resources the provider returns to one refresh

---------------------------------------------------------------------------
(* to_safe *)

Lower  == {"a","b","c","d","e","f","g","h","i","j","k","l","m",
           "n","o","p","q","r","s","t","u","v","w","x","y","z"}
Upper  == {"A","B","C","D","E","F","G","H","I","J","K","L","M",
           "N","O","P","Q","R","S","T","U","V","W","X","Y","Z"}
Digits == {"0","1","2","3","4","5","6","7","8","9"}

\* the characters the pattern [^A-Za-z0-9\-] does not match
KeptChars == Lower \cup Upper \cup Digits \cup {"-"}

\* a bug: bad characters are dropped instead of replaced
to_safe_dropping(w) ==
    LET keep(c) == c \in KeptChars IN SelectSeq(w, keep)

\* re.sub("[^A-Za-z0-9\-]", "_", word): every character the class matches
\* is replaced by one underscore, all others are kept
to_safe(w) == [i \in 1..Len(w) |-> IF w[i] \in KeptChars THEN w[i] ELSE "_"]

\* the characters tried as input: one of each kind the pattern tells apart,
\* the underscore itself, and some of those it replaces
Chars == {"a", "Z", "7", "-", "_", ".", "=", " "}

RECURSIVE WordsUpTo(_)
WordsUpTo(n) ==
    IF n = 0 THEN {<<>>}
    ELSE LET shorter == WordsUpTo(n - 1)
         IN shorter \cup {Append(w, c) : w \in shorter, c \in Chars}

---------------------------------------------------------------------------
(* Configuration: the module-level settings read from ec2.ini *)

CACHE_MAX_AGE == 1

R1 == <<"r", "1">>
R2 == <<"r", "2">>
REGIONS == <<R1, R2>>

HOST_ADDRESS_VARIABLE     == "public_dns_name"
VPC_HOST_ADDRESS_VARIABLE == "private_dns_name"

---------------------------------------------------------------------------
(* Python dictionaries: a mapping is a function whose domain is its keys *)

EmptyDict == <<>>

\* d[k] = v
DictSet(d, k, v) ==
    [x \in DOMAIN d \cup {k} |-> IF x = k THEN v ELSE d[x]]

\* d[k].append(v) on a defaultdict(list): a missing key starts as []
DictAppend(d, k, v) ==
    IF k \in DOMAIN d
    THEN [d EXCEPT ![k] = Append(@, v)]
    ELSE DictSet(d, k, <<v>>)

\* for k in keys: d[k].append(v)
RECURSIVE DictAppendAll(_, _, _)
DictAppendAll(d, keys, v) ==
    IF keys = <<>> THEN d
    ELSE DictAppendAll(DictAppend(d, Head(keys), v), Tail(keys), v)

Members(list) == {list[i] : i \in 1..Len(list)}

\* some enumeration of a set, as list(a_set) gives one
RECURSIVE ListOf(_)
ListOf(S) ==
    IF S = {} THEN <<>>
    ELSE LET x == CHOOSE y \in S : TRUE IN <<x>> \o ListOf(S \ {x})

\* the value of `records`: None, or a mapping from a record's target to the
\* set of domain names pointing at it
NoRecords == [none |-> TRUE, map |-> EmptyDict]
SomeRecords(m) == [none |-> FALSE, map |-> m]

\* `if records:` is false for None and for the empty mapping
Truthy(recs) == ~recs.none /\ DOMAIN recs.map # {}

---------------------------------------------------------------------------
(* The fixed prefixes of the derived group names *)

P_type     == <<"t","y","p","e","_">>
P_key      == <<"k","e","y","_">>
P_secgroup == <<"s","e","c","u","r","i","t","y","_","g","r","o","u","p","_">>
P_tag      == <<"t","a","g","_">>
P_profile  == <<"p","r","o","f","i","l","e","_">>
P_rds      == <<"r","d","s","_">>
P_rdsparam == <<"r","d","s","_","p","a","r","a","m","e","t","e","r","_",
                "g","r","o","u","p","_">>

---------------------------------------------------------------------------
(* DNS cross-reference *)

\* get_route53_records(): with no zone the loop body never runs and the
\* empty map is returned; with a zone, the first statement of the body reads
\* the name r53_conn, which nothing defines, and NameError is raised
get_route53_records(zs) ==
    IF Len(zs) = 0
    THEN [raised |-> FALSE, records |-> EmptyDict]
    ELSE [raised |-> TRUE,  records |-> EmptyDict]

INSTANCE_ATTRIBUTES ==
    <<"public_dns_name", "private_dns_name", "ip_address", "private_ip_address">>

\* get_instance_route53_names(instance, route53_records): the union, over the
\* four attributes, of the names recorded for the attribute's value
get_instance_route53_names(instance, route53_records) ==
    ListOf(UNION {IF instance[INSTANCE_ATTRIBUTES[i]] \in DOMAIN route53_records
                  THEN route53_records[instance[INSTANCE_ATTRIBUTES[i]]]
                  ELSE {} : i \in 1..Len(INSTANCE_ATTRIBUTES)})

---------------------------------------------------------------------------
(* Grouping: add_instance and add_rds_instance                             *)
(* st is the pair of mutable mappings the caller passes in; the result is  *)
(* the pair after the call.                                                *)

\* a bug: an instance without the selected address falls back to the other
ComputeDest_fallback(instance) ==
    LET vpc == instance[VPC_HOST_ADDRESS_VARIABLE]
        std == instance[HOST_ADDRESS_VARIABLE]
    IN IF instance.subnet_id # ""
       THEN (IF vpc # "" THEN vpc ELSE std)
       ELSE (IF std # "" THEN std ELSE vpc)

\* the address add_instance selects for a compute instance
ComputeDest(instance) ==
    IF instance.subnet_id # ""
    THEN instance[VPC_HOST_ADDRESS_VARIABLE]
    ELSE instance[HOST_ADDRESS_VARIABLE]

\* the names of the tag groups, in the order iteritems() yields the tags
RECURSIVE TagKeys(_)
TagKeys(tags) ==
    IF tags = <<>> THEN <<>>
    ELSE <<to_safe(P_tag \o Head(tags)[1] \o <<"=">> \o Head(tags)[2])>>
         \o TagKeys(Tail(tags))

RECURSIVE SecurityGroupKeys(_)
SecurityGroupKeys(groups) ==
    IF groups = <<>> THEN <<>>
    ELSE <<to_safe(P_secgroup \o Head(groups))>> \o SecurityGroupKeys(Tail(groups))

\* the group memberships add_instance files for dest, in the order of the
\* code: the per-id group is assigned, every other group is appended to
add_instance_groups(instance, region, inv, dest, recs) ==
    LET inv1 == DictSet(inv, instance.id, <<dest>>)
        inv2 == DictAppend(inv1, region, dest)
        inv3 == DictAppend(inv2, instance.placement, dest)
        inv4 == DictAppend(inv3, to_safe(P_type \o instance.instance_type), dest)
        inv5 == IF instance.key_name # <<>>
                THEN DictAppend(inv4, to_safe(P_key \o instance.key_name), dest)
                ELSE inv4
        inv6 == DictAppendAll(inv5, SecurityGroupKeys(instance.groups), dest)
        inv7 == DictAppendAll(inv6, TagKeys(instance.tags), dest)
        inv8 == IF Truthy(recs)
                THEN DictAppendAll(inv7, get_instance_route53_names(instance, recs.map), dest)
                ELSE inv7
        inv9 == IF instance.instance_profile # <<>>
                THEN DictAppend(inv8, to_safe(P_profile \o instance.instance_profile), dest)
                ELSE inv8
    IN inv9

\* a bug: an address already in the index keeps its first entry
add_instance_first_wins(instance, region, st, recs) ==
    IF instance.state # "running" THEN st
    ELSE LET dest == ComputeDest(instance) IN
    IF dest = "" THEN st
    ELSE [inventory |-> add_instance_groups(instance, region, st.inventory, dest, recs),
          index |-> IF dest \in DOMAIN st.index THEN st.index
                    ELSE DictSet(st.index, dest, <<region, instance.id>>)]

\* a bug: the index entry is forgotten
add_instance_no_index(instance, region, st, recs) ==
    IF instance.state # "running" THEN st
    ELSE LET dest == ComputeDest(instance) IN
    IF dest = "" THEN st
    ELSE [inventory |-> add_instance_groups(instance, region, st.inventory, dest, recs),
          index |-> st.index]

add_instance(instance, region, st, recs) ==
    IF instance.state # "running" THEN st
    ELSE LET dest == ComputeDest(instance) IN
    IF dest = "" THEN st
    ELSE [inventory |-> add_instance_groups(instance, region, st.inventory, dest, recs),
          index |-> DictSet(st.index, dest, <<region, instance.id>>)]

add_rds_instance(instance, region, st, recs) ==
    IF instance.status # "available" THEN st
    ELSE LET dest == instance.endpoint IN
    IF dest = "" THEN st
    ELSE LET
        idx  == DictSet(st.index, dest, <<region, instance.id>>)
        inv1 == DictSet(st.inventory, instance.id, <<dest>>)
        inv2 == DictAppend(inv1, region, dest)
        inv3 == DictAppend(inv2, instance.availability_zone, dest)
        inv4 == DictAppend(inv3, to_safe(P_type \o instance.instance_class), dest)
        inv5 == IF instance.security_group # <<>>
                THEN DictAppend(inv4, to_safe(P_secgroup \o instance.security_group), dest)
                ELSE inv4
        inv6 == DictAppend(inv5, to_safe(P_rds \o instance.engine), dest)
        inv7 == DictAppend(inv6, to_safe(P_rdsparam \o instance.parameter_group), dest)
    IN [inventory |-> inv7, index |-> idx]

---------------------------------------------------------------------------
(* What the provider may return *)

I1 == <<"i", "-", "1">>
I2 == <<"i", "-", "2">>
D1 == <<"d", "b", "-", "1">>

ZoneOf(region) == Append(region, "a")

\* a compute instance as boto describes it
Compute(region, i, s, sn, pub, priv) ==
    [id |-> i, state |-> s, subnet_id |-> sn,
     public_dns_name |-> pub, private_dns_name |-> priv,
     ip_address |-> "ip1", private_ip_address |-> "ip2",
     placement |-> ZoneOf(region),
     instance_type |-> <<"m", "1", ".", "s">>,
     key_name |-> <<"k">>,
     groups |-> << <<"w", "e", "b">> >>,
     tags |-> << << <<"e">>, <<"p">> >> >>,
     instance_profile |-> <<>>]

\* the compute instances conn.get_all_instances() may yield in a region:
\* a running one with every combination of subnet and addresses, a second
\* one with the same addresses, in and out of a VPC, and one that is not
\* running
ComputeIn(region) ==
    { Compute(region, I1, "running", sn, pub, priv) :
        sn \in {"", "subnet-1"}, pub \in {"", "a1"}, priv \in {"", "a2"} }
    \cup { Compute(region, I2, "running", sn, "a1", "a2") : sn \in {"", "subnet-1"} }
    \cup { Compute(region, I1, "stopped", "", "a1", "a2") }

\* a database instance as boto describes it; endpoint is the address part
\* of the (address, port) pair
Db(region, i, s, e) ==
    [id |-> i, status |-> s, endpoint |-> e,
     availability_zone |-> ZoneOf(region),
     instance_class |-> <<"d", "b", ".", "s">>,
     security_group |-> <<"d", "b">>,
     engine |-> <<"p", "g">>,
     parameter_group |-> <<"d", "f">>]

\* the database instances conn.get_all_dbinstances() may yield in a region;
\* a database identifier is chosen by its owner and may spell a region's name
DbIn(region) ==
    { Db(region, D1, "available", e) : e \in {"", "a1", "a3"} }
    \cup { Db(region, R1, "available", "a3"), Db(region, D1, "creating", "a3") }

\* a Route53 zone: its record sets, each a name and the targets it points at
Zone1 == << [name |-> <<"h", ".", "x">>, resource_records |-> <<"a1">>] >>

---------------------------------------------------------------------------
(* The cache files *)

EmptyText   == [kind |-> "empty", doc |-> EmptyDict]
GarbageText == [kind |-> "garbage", doc |-> EmptyDict]

\* json.dumps(mapping, sort_keys=True, indent=2): the document of a mapping
json_dumps(m) == [kind |-> "json", doc |-> m]

\* json.loads / json.load raise ValueError on anything but one document
JsonReadable(text) == text.kind = "json"
json_loads(text) == text.doc

\* time(): only the difference between the clock and the modification time
\* of the cache file is ever used, so times are counted from the present:
\* the clock reads 0 and a file modified n units ago has mtime -n
time == 0

\* a file: its text and its modification time. Only the modification time
\* of the cache file is ever read (cache_expired); that of the index file
\* is left at 0.
NoFile == [exists |-> FALSE, text |-> EmptyText, mtime |-> 0]

\* open(path, 'w'): the file is created or truncated
OpenForWrite(f, t) == [exists |-> TRUE, text |-> EmptyText, mtime |-> t]

\* write + close of a document into a file opened with OpenForWrite: the
\* bytes go to offset 0. If another writer's document landed in between and
\* is longer, its tail survives behind ours and the file is no document.
WriteResults(f, m, t) ==
    { [exists |-> TRUE, text |-> x, mtime |-> t] :
      x \in IF f.text.kind = "empty" \/ f.text = json_dumps(m)
            THEN {json_dumps(m)}
            ELSE {json_dumps(m), GarbageText} }

---------------------------------------------------------------------------
(* Initial values *)

Procs == {1, 2}

NoOut  == [kind |-> "none", doc |-> EmptyDict]
NoOrigin == "none"
NoChk == [done |-> FALSE, forced |-> FALSE, cache |-> FALSE, index |-> FALSE,
          age |-> 0, took |-> "nothing"]
NoConsult == [done |-> FALSE, how |-> "none", reread |-> FALSE,
              readable |-> FALSE, known |-> FALSE, called |-> FALSE]

InitSafeIdle == word = <<>> /\ once = {} /\ twice = {}

InitProcs(start) ==
    /\ pc = [p \in Procs |-> IF p = 1 THEN start ELSE "idle"]
    /\ inventory = [p \in Procs |-> EmptyDict]
    /\ index = [p \in Procs |-> EmptyDict]
    /\ out = [p \in Procs |-> NoOut]
    /\ exitCode = [p \in Procs |-> -1]
    /\ origin = [p \in Procs |-> NoOrigin]
    /\ chk = [p \in Procs |-> NoChk]
    /\ consulted = [p \in Procs |-> NoConsult]

InitLoop ==
    /\ records = NoRecords
    /\ region_i = 1
    /\ fetched = <<>>
    /\ connFail = {}

---------------------------------------------------------------------------
(* to_safe, applied once and twice to every short word *)

InitSafe ==
    /\ word \in WordsUpTo(MaxLen)
    /\ once = {} /\ twice = {}
    /\ disturbed = FALSE
    /\ cacheFile = NoFile /\ indexFile = NoFile
    /\ InitProcs("idle")
    /\ use_route53 = FALSE /\ zones = <<>>
    /\ InitLoop
    /\ files0 = <<NoFile, NoFile>>

SafeOnce ==
    /\ once = {}
    /\ once' = {to_safe(word)}
    /\ UNCHANGED <<word, twice, fileVars, procVars, cliVars, loopVars>>

SafeTwice ==
    /\ once # {} /\ twice = {}
    /\ twice' = {to_safe(w) : w \in once}
    /\ UNCHANGED <<word, once, fileVars, procVars, cliVars, loopVars>>

NextSafe == SafeOnce \/ SafeTwice

SpecSafe == InitSafe /\ [][NextSafe]_vars

---------------------------------------------------------------------------
(* Steps shared by the specifications of the script *)

St(p) == [inventory |-> inventory[p], index |-> index[p]]

\* the invocation in place p is running
Active(p) == pc[p] \notin {"idle", "exited"}

\* the process ends: sys.exit(code), an uncaught exception (status 1), a
\* signal (status 130), or the end of the script (status 0). Its memory goes
\* with it. What it printed and its exit status are kept until the next
\* process ends.
Exit(p, code, printed, cons) ==
    /\ pc' = [q \in Procs |-> IF q = p THEN "exited"
                              ELSE IF pc[q] = "exited" THEN "idle" ELSE pc[q]]
    /\ exitCode' = [q \in Procs |-> IF q = p THEN code ELSE -1]
    /\ out' = [q \in Procs |-> IF q = p THEN printed ELSE NoOut]
    /\ consulted' = [q \in Procs |-> IF q = p THEN cons ELSE NoConsult]
    /\ inventory' = [inventory EXCEPT ![p] = EmptyDict]
    /\ index' = [index EXCEPT ![p] = EmptyDict]
    /\ origin' = [origin EXCEPT ![p] = NoOrigin]
    /\ chk' = [chk EXCEPT ![p] = NoChk]

\* a bug: the cache files are written inside the loop over REGIONS
AfterRegion_inside_loop(i) == IF i > 1 THEN "wc_open" ELSE "ec2_connect"

\* where update_inventory goes after region number i - 1: the next region,
\* or the writing of the cache files once REGIONS is exhausted
AfterRegion(i) == IF i > Len(REGIONS) THEN "wc_open" ELSE "ec2_connect"

\* with open(CACHE_FILE_PATH, 'w') as cache_file:
WriteCacheOpen(p) ==
    /\ pc[p] = "wc_open"
    /\ cacheFile' = OpenForWrite(cacheFile, time)
    /\ pc' = [pc EXCEPT ![p] = "wc_write"]
    /\ UNCHANGED <<indexFile, inventory, index, out, exitCode, origin,
                   chk, consulted, safeVars, cliVars, loopVars>>

\* cache_file.write(json.dumps(inventory, ...)) and the close of the file
WriteCacheData(p) ==
    /\ pc[p] = "wc_write"
    /\ cacheFile' \in WriteResults(cacheFile, inventory[p], time)
    /\ pc' = [pc EXCEPT ![p] = "wi_open"]
    /\ UNCHANGED <<indexFile, inventory, index, out, exitCode, origin,
                   chk, consulted, safeVars, cliVars, loopVars>>

\* with open(CACHE_INDEX_PATH, 'w') as index_file:
WriteIndexOpen(p) ==
    /\ pc[p] = "wi_open"
    /\ indexFile' = OpenForWrite(indexFile, 0)
    /\ pc' = [pc EXCEPT ![p] = "wi_write"]
    /\ UNCHANGED <<cacheFile, inventory, index, out, exitCode, origin,
                   chk, consulted, safeVars, cliVars, loopVars>>

\* index_file.write(json.dumps(index, ...)), the close of the file, and the
\* return of update_inventory into the script's inventory and index
WriteIndexData(p) ==
    /\ pc[p] = "wi_write"
    /\ indexFile' \in WriteResults(indexFile, index[p], 0)
    /\ pc' = [pc EXCEPT ![p] = "print"]
    /\ origin' = [origin EXCEPT ![p] = "refresh"]
    /\ UNCHANGED <<cacheFile, inventory, index, out, exitCode,
                   chk, consulted, safeVars, cliVars, loopVars>>

\* the variables get_host_info prints for the instance the index names
HostVars(entry) == [ec2_id |-> entry[2], ec2_region |-> entry[1]]

\* a bug: the membership test is missing, and index[host] raises KeyError
get_host_info_unchecked(idx, host, ifile, provider_ok) ==
    IF idx = EmptyDict /\ ~(ifile.exists /\ JsonReadable(ifile.text))
    THEN [raised |-> TRUE, called |-> FALSE, doc |-> EmptyDict]
    ELSE LET ix == IF idx = EmptyDict THEN json_loads(ifile.text) ELSE idx IN
         IF host \notin DOMAIN ix
         THEN [raised |-> TRUE, called |-> FALSE, doc |-> EmptyDict]
         ELSE IF provider_ok
              THEN [raised |-> FALSE, called |-> TRUE, doc |-> HostVars(ix[host])]
              ELSE [raised |-> TRUE, called |-> TRUE, doc |-> EmptyDict]

\* get_host_info(index, host): an empty index in memory is reloaded from the
\* index file (load_from_cache raises when the file cannot be opened or
\* parsed); a host the index does not hold yields the empty object; any
\* other host costs a call to the provider (get_instance), which may fail
get_host_info(idx, host, ifile, provider_ok) ==
    IF idx = EmptyDict /\ ~(ifile.exists /\ JsonReadable(ifile.text))
    THEN [raised |-> TRUE, called |-> FALSE, doc |-> EmptyDict]
    ELSE LET ix == IF idx = EmptyDict THEN json_loads(ifile.text) ELSE idx IN
         IF host \notin DOMAIN ix
         THEN [raised |-> FALSE, called |-> FALSE, doc |-> EmptyDict]
         ELSE IF provider_ok
              THEN [raised |-> FALSE, called |-> TRUE, doc |-> HostVars(ix[host])]
              ELSE [raised |-> TRUE, called |-> TRUE, doc |-> EmptyDict]

Hosts == {"a1", "zz"}

\* if args.host: print(get_host_info(index, args.host)).
\* The command line is fixed when the script starts and args.host is first
\* read here, so the host asked for is drawn here. consulted notes, from
\* the state before the call, where inventory and index came from, whether
\* the index was reread from the file, whether that file was readable, and
\* whether the index held the host.
PrintHost(p) ==
    /\ pc[p] = "print"
    /\ \E host \in Hosts, provider_ok \in BOOLEAN :
         LET r == get_host_info(index[p], host, indexFile, provider_ok)
             reread == index[p] = EmptyDict
             readable == indexFile.exists /\ indexFile.text.kind = "json"
             known == IF reread
                      THEN readable /\ host \in DOMAIN indexFile.text.doc
                      ELSE host \in DOMAIN index[p]
         IN Exit(p, IF r.raised THEN 1 ELSE 0,
                 IF r.raised THEN NoOut ELSE [kind |-> "host", doc |-> r.doc],
                 [done |-> TRUE, how |-> origin[p], reread |-> reread,
                  readable |-> readable, known |-> known, called |-> r.called])
    /\ UNCHANGED <<fileVars, safeVars, cliVars, loopVars>>

\* elif args.list: print(json.dumps(inventory, ...)), when no host is asked
\* for
PrintList(p) ==
    /\ pc[p] = "print"
    /\ Exit(p, 0, [kind |-> "list", doc |-> inventory[p]], NoConsult)
    /\ UNCHANGED <<fileVars, safeVars, cliVars, loopVars>>

---------------------------------------------------------------------------
(* One refresh, step by step: update_inventory and the two fetchers.       *)
(* The refresh followed is that of invocation RP.                          *)

RP == 1

Region == REGIONS[region_i]

\* inventory = defaultdict(list); index = defaultdict(list); then
\* records = get_route53_records() if USE_ROUTE53 else None.
\* An exception raised by get_route53_records is caught nowhere.
GetRecords ==
    /\ pc[RP] = "update_inventory"
    /\ region_i' = 1
    /\ files0' = <<cacheFile, indexFile>>
    /\ LET r == get_route53_records(zones) IN
       IF use_route53 /\ r.raised
       THEN /\ Exit(RP, 1, NoOut, NoConsult)
            /\ UNCHANGED records
       ELSE /\ records' = IF use_route53 THEN SomeRecords(r.records) ELSE NoRecords
            /\ pc' = [pc EXCEPT ![RP] = AfterRegion(1)]
            /\ inventory' = [inventory EXCEPT ![RP] = EmptyDict]
            /\ index' = [index EXCEPT ![RP] = EmptyDict]
            /\ UNCHANGED <<out, exitCode, origin, chk, consulted>>
    /\ UNCHANGED <<fileVars, safeVars, cliVars, use_route53, zones, fetched, connFail>>

\* get_instances_by_region: the connection is made
Ec2ConnectOk ==
    /\ pc[RP] = "ec2_connect"
    /\ pc' = [pc EXCEPT ![RP] = "ec2_loop"]
    /\ UNCHANGED <<fileVars, inventory, index, out, exitCode, origin, chk,
                   consulted, safeVars, cliVars, loopVars>>

\* get_instances_by_region: connect_to_region returns None; the message is
\* printed and sys.exit(1) ends the process
Ec2ConnectNone ==
    /\ pc[RP] = "ec2_connect"
    /\ connFail' = connFail \cup {<<Region, "ec2", "none">>}
    /\ Exit(RP, 1, NoOut, NoConsult)
    /\ UNCHANGED <<fileVars, safeVars, cliVars,
                   use_route53, zones, records, region_i, fetched, files0>>

\* get_instances_by_region: connecting or conn.get_all_instances() raises;
\* nothing catches the exception
Ec2Raises ==
    /\ pc[RP] = "ec2_connect"
    /\ connFail' = connFail \cup {<<Region, "ec2", "raised">>}
    /\ Exit(RP, 1, NoOut, NoConsult)
    /\ UNCHANGED <<fileVars, safeVars, cliVars,
                   use_route53, zones, records, region_i, fetched, files0>>

\* get_instances_by_region: one turn of the loop over the instances. The
\* call is add_instance(instance, region, inventory, index): the records
\* argument is not passed on and takes its default, None.
Ec2Add ==
    /\ pc[RP] = "ec2_loop"
    /\ Len(fetched) < MaxRes
    /\ \E instance \in ComputeIn(Region) :
         LET st == add_instance(instance, Region, St(RP), NoRecords) IN
         /\ inventory' = [inventory EXCEPT ![RP] = st.inventory]
         /\ index' = [index EXCEPT ![RP] = st.index]
         /\ fetched' = Append(fetched,
                [kind |-> "ec2", region |-> Region, res |-> instance])
    /\ UNCHANGED <<fileVars, pc, out, exitCode, origin, chk, consulted,
                   safeVars, cliVars,
                   use_route53, zones, records, region_i, connFail, files0>>

\* get_instances_by_region returns
Ec2Done ==
    /\ pc[RP] = "ec2_loop"
    /\ pc' = [pc EXCEPT ![RP] = "rds_connect"]
    /\ UNCHANGED <<fileVars, inventory, index, out, exitCode, origin, chk,
                   consulted, safeVars, cliVars, loopVars>>

\* get_rds_instances_by_region: the connection is made and the instances
\* are listed
RdsConnectOk ==
    /\ pc[RP] = "rds_connect"
    /\ pc' = [pc EXCEPT ![RP] = "rds_loop"]
    /\ UNCHANGED <<fileVars, inventory, index, out, exitCode, origin, chk,
                   consulted, safeVars, cliVars, loopVars>>

\* get_rds_instances_by_region: rds.connect_to_region returns None; `if
\* conn:` is false, the function returns, and update_inventory goes on
RdsConnectNone ==
    /\ pc[RP] = "rds_connect"
    /\ connFail' = connFail \cup {<<Region, "rds", "none">>}
    /\ region_i' = region_i + 1
    /\ pc' = [pc EXCEPT ![RP] = AfterRegion(region_i + 1)]
    /\ UNCHANGED <<fileVars, inventory, index, out, exitCode, origin, chk,
                   consulted, safeVars, cliVars,
                   use_route53, zones, records, fetched, files0>>

\* get_rds_instances_by_region: BotoServerError is caught, reported, and
\* answered with sys.exit(1); any other exception is caught nowhere
RdsRaises ==
    /\ pc[RP] = "rds_connect"
    /\ connFail' = connFail \cup {<<Region, "rds", "raised">>}
    /\ Exit(RP, 1, NoOut, NoConsult)
    /\ UNCHANGED <<fileVars, safeVars, cliVars,
                   use_route53, zones, records, region_i, fetched, files0>>

\* get_rds_instances_by_region: one turn of the loop over the instances
RdsAdd ==
    /\ pc[RP] = "rds_loop"
    /\ Len(fetched) < MaxRes
    /\ \E instance \in DbIn(Region) :
         LET st == add_rds_instance(instance, Region, St(RP), records) IN
         /\ inventory' = [inventory EXCEPT ![RP] = st.inventory]
         /\ index' = [index EXCEPT ![RP] = st.index]
         /\ fetched' = Append(fetched,
                [kind |-> "rds", region |-> Region, res |-> instance])
    /\ UNCHANGED <<fileVars, pc, out, exitCode, origin, chk, consulted,
                   safeVars, cliVars,
                   use_route53, zones, records, region_i, connFail, files0>>

\* get_rds_instances_by_region returns, and the loop over REGIONS moves on
RdsDone ==
    /\ pc[RP] = "rds_loop"
    /\ region_i' = region_i + 1
    /\ pc' = [pc EXCEPT ![RP] = AfterRegion(region_i + 1)]
    /\ UNCHANGED <<fileVars, inventory, index, out, exitCode, origin, chk,
                   consulted, safeVars, cliVars,
                   use_route53, zones, records, fetched, connFail, files0>>

\* the cache files a refresh may find: none, or those an earlier refresh
\* wrote when the provider had nothing to list
OldFile == [exists |-> TRUE, text |-> json_dumps(EmptyDict), mtime |-> 0]

InitRefresh ==
    /\ InitSafeIdle
    /\ disturbed = FALSE
    /\ \E f \in {NoFile, OldFile} : cacheFile = f /\ indexFile = f
    /\ InitProcs("update_inventory")
    /\ \E c \in {<<FALSE, <<Zone1>> >>, <<TRUE, <<>> >>, <<TRUE, <<Zone1>> >>} :
         use_route53 = c[1] /\ zones = c[2]
    /\ InitLoop
    /\ files0 = <<cacheFile, indexFile>>

NextRefresh ==
    \/ GetRecords
    \/ Ec2ConnectOk \/ Ec2ConnectNone \/ Ec2Raises \/ Ec2Add \/ Ec2Done
    \/ RdsConnectOk \/ RdsConnectNone \/ RdsRaises \/ RdsAdd \/ RdsDone
    \/ WriteCacheOpen(RP) \/ WriteCacheData(RP)
    \/ WriteIndexOpen(RP) \/ WriteIndexData(RP)
    \/ PrintList(RP)

SpecRefresh == InitRefresh /\ [][NextRefresh]_vars

---------------------------------------------------------------------------
(* The script from the command line on: invocations of the script, one     *)
(* after another or side by side, over the same two cache files.           *)
(* Here a refresh fetches all regions in one step.                         *)

\* for instance in ...: add_instance(instance, region, inventory, index)
RECURSIVE AddInstances(_, _, _, _)
AddInstances(instances, region, st, recs) ==
    IF instances = <<>> THEN st
    ELSE AddInstances(Tail(instances), region,
                      add_instance(Head(instances), region, st, recs), recs)

\* for instance in instances: add_rds_instance(instance, region, ...)
RECURSIVE AddRdsInstances(_, _, _, _)
AddRdsInstances(instances, region, st, recs) ==
    IF instances = <<>> THEN st
    ELSE AddRdsInstances(Tail(instances), region,
                         add_rds_instance(Head(instances), region, st, recs), recs)

\* get_instances_by_region against the provider's answer resp: no
\* connection or a raised exception ends the process; the records argument
\* is not handed to add_instance
get_instances_by_region(region, st, resp, recs) ==
    IF resp.ec2 # "ok"
    THEN [exit |-> TRUE, st |-> st]
    ELSE [exit |-> FALSE, st |-> AddInstances(resp.instances, region, st, NoRecords)]

\* get_rds_instances_by_region against the provider's answer resp: no
\* connection is passed over, a raised exception ends the process
get_rds_instances_by_region(region, st, resp, recs) ==
    IF resp.rds = "none" THEN [exit |-> FALSE, st |-> st]
    ELSE IF resp.rds = "raised" THEN [exit |-> TRUE, st |-> st]
    ELSE [exit |-> FALSE, st |-> AddRdsInstances(resp.dbs, region, st, recs)]

\* for region in REGIONS, from position i on
RECURSIVE FetchRegions(_, _, _, _)
FetchRegions(i, world, st, recs) ==
    IF i > Len(REGIONS) THEN [exit |-> FALSE, st |-> st]
    ELSE LET a == get_instances_by_region(REGIONS[i], st, world[i], recs) IN
         IF a.exit THEN a
         ELSE LET b == get_rds_instances_by_region(REGIONS[i], a.st, world[i], recs) IN
              IF b.exit THEN b
              ELSE FetchRegions(i + 1, world, b.st, recs)

\* update_inventory up to the writing of the files
update_inventory_fetch(world, use, zs) ==
    LET r == get_route53_records(zs)
        start == [inventory |-> EmptyDict, index |-> EmptyDict]
    IN IF use /\ r.raised THEN [exit |-> TRUE, st |-> start]
       ELSE FetchRegions(1, world, start,
                         IF use THEN SomeRecords(r.records) ELSE NoRecords)

\* what the provider may answer to one refresh, region by region
Quiet == [ec2 |-> "ok", instances |-> <<>>, rds |-> "ok", dbs |-> <<>>]
Worlds ==
    { <<Quiet, Quiet>>,
      <<[Quiet EXCEPT !.instances = <<Compute(R1, I1, "running", "", "a1", "a2")>>],
        Quiet>>,
      <<Quiet, [Quiet EXCEPT !.dbs = <<Db(R2, D1, "available", "a3")>>]>>,
      <<Quiet, [Quiet EXCEPT !.ec2 = "none"]>> }

\* a bug: a cache exactly CACHE_MAX_AGE old still counts as fresh
cache_expired_inclusive(cf, xf, t) ==
    ~(cf.exists /\ cf.mtime + CACHE_MAX_AGE >= t /\ xf.exists)

\* cache_expired(): False only if the cache file exists, its modification
\* time plus CACHE_MAX_AGE is greater than the current time, and the index
\* file exists
cache_expired(cf, xf, t) ==
    ~(cf.exists /\ cf.mtime + CACHE_MAX_AGE > t /\ xf.exists)

\* the script is started, with the module-level inventory = {} and
\* index = {}. An invocation takes the first free place: the second place is
\* used only while the first is busy.
Start(p) ==
    /\ ~Active(p)
    /\ \A q \in Procs : q < p => Active(q)
    /\ pc' = [pc EXCEPT ![p] = "check"]
    /\ inventory' = [inventory EXCEPT ![p] = EmptyDict]
    /\ index' = [index EXCEPT ![p] = EmptyDict]
    /\ out' = [out EXCEPT ![p] = NoOut]
    /\ exitCode' = [exitCode EXCEPT ![p] = -1]
    /\ origin' = [origin EXCEPT ![p] = NoOrigin]
    /\ chk' = [chk EXCEPT ![p] = NoChk]
    /\ consulted' = [consulted EXCEPT ![p] = NoConsult]
    /\ disturbed' = (disturbed \/ \E q \in Procs \ {p} : Active(q))
    /\ UNCHANGED <<fileVars, safeVars, loopVars>>

\* if cache_expired() or args.refresh_cache:
\* args.refresh_cache is first read here, so the flag is drawn here. chk
\* notes which branch was taken and, unless the flag decided, what the file
\* system and the clock showed at the call: which files existed and, when
\* both did, the age of the cache file.
CacheCheck(p) ==
    /\ pc[p] = "check"
    /\ \E refresh_cache \in BOOLEAN :
       LET expired == cache_expired(cacheFile, indexFile, time)
           refresh == expired \/ refresh_cache
           both == cacheFile.exists /\ indexFile.exists
       IN /\ pc' = [pc EXCEPT ![p] = IF refresh THEN "update_inventory" ELSE "load_inv"]
          /\ chk' = [chk EXCEPT ![p] =
                       IF refresh_cache
                       THEN [NoChk EXCEPT !.done = TRUE, !.forced = TRUE,
                                          !.took = "refresh"]
                       ELSE [done |-> TRUE, forced |-> FALSE,
                             cache |-> cacheFile.exists,
                             index |-> indexFile.exists,
                             age |-> IF both THEN time - cacheFile.mtime ELSE 0,
                             took |-> IF refresh THEN "refresh" ELSE "load"]]
    /\ UNCHANGED <<fileVars, inventory, index, out, exitCode, origin,
                   consulted, safeVars, cliVars, loopVars>>

\* with open(CACHE_FILE_PATH, 'r') as inv_file: inventory = json.load(inv_file)
LoadInventory(p) ==
    /\ pc[p] = "load_inv"
    /\ IF cacheFile.exists /\ JsonReadable(cacheFile.text)
       THEN /\ inventory' = [inventory EXCEPT ![p] = json_loads(cacheFile.text)]
            /\ pc' = [pc EXCEPT ![p] = "load_idx"]
            /\ chk' = [chk EXCEPT ![p] = NoChk]
            /\ UNCHANGED <<index, out, exitCode, origin, consulted>>
       ELSE Exit(p, 1, NoOut, NoConsult)
    /\ UNCHANGED <<fileVars, safeVars, cliVars, loopVars>>

\* with open(CACHE_INDEX_PATH, 'r') as index_file: index = json.load(index_file)
LoadIndex(p) ==
    /\ pc[p] = "load_idx"
    /\ IF indexFile.exists /\ JsonReadable(indexFile.text)
       THEN /\ index' = [index EXCEPT ![p] = json_loads(indexFile.text)]
            /\ origin' = [origin EXCEPT ![p] = "cache"]
            /\ pc' = [pc EXCEPT ![p] = "print"]
            /\ UNCHANGED <<inventory, out, exitCode, chk, consulted>>
       ELSE Exit(p, 1, NoOut, NoConsult)
    /\ UNCHANGED <<fileVars, safeVars, cliVars, loopVars>>

\* inventory, index = update_inventory(), up to the first open(..., 'w')
UpdateFetch(p) ==
    /\ pc[p] = "update_inventory"
    /\ \E world \in Worlds :
         LET r == update_inventory_fetch(world, use_route53, zones) IN
         IF r.exit
         THEN Exit(p, 1, NoOut, NoConsult)
         ELSE /\ inventory' = [inventory EXCEPT ![p] = r.st.inventory]
              /\ index' = [index EXCEPT ![p] = r.st.index]
              /\ pc' = [pc EXCEPT ![p] = "wc_open"]
              /\ chk' = [chk EXCEPT ![p] = NoChk]
              /\ UNCHANGED <<out, exitCode, origin, consulted>>
    /\ UNCHANGED <<fileVars, safeVars, cliVars, loopVars>>

\* the process is killed from outside (a signal, a reboot)
Interrupt(p) ==
    /\ Active(p)
    /\ Exit(p, 130, NoOut, NoConsult)
    /\ disturbed' = (disturbed \/ pc[p] \in {"wc_write", "wi_open", "wi_write"})
    /\ UNCHANGED <<fileVars, safeVars, loopVars>>

\* time passes: the cache file is one unit older. Before there is a cache
\* file nothing reads the clock.
Tick ==
    /\ cacheFile.exists
    /\ time - cacheFile.mtime < MaxTime
    /\ cacheFile' = [cacheFile EXCEPT !.mtime = @ - 1]
    /\ UNCHANGED <<indexFile, procVars, disturbed, safeVars, loopVars>>

Init ==
    /\ InitSafeIdle
    /\ disturbed = FALSE
    /\ cacheFile = NoFile /\ indexFile = NoFile
    /\ InitProcs("idle")
    /\ use_route53 = FALSE /\ zones = <<Zone1>>
    /\ InitLoop
    /\ files0 = <<NoFile, NoFile>>

Next ==
    \/ Tick
    \/ \E p \in Procs :
         \/ Start(p) \/ CacheCheck(p) \/ LoadInventory(p) \/ LoadIndex(p)
         \/ UpdateFetch(p)
         \/ WriteCacheOpen(p) \/ WriteCacheData(p)
         \/ WriteIndexOpen(p) \/ WriteIndexData(p)
         \/ PrintHost(p) \/ PrintList(p)
         \/ Interrupt(p)

Spec == Init /\ [][Next]_vars

---------------------------------------------------------------------------
(* Properties of to_safe, under SpecSafe *)

AllowedChars == Lower \cup Upper \cup Digits \cup {"-", "_"}

\* C9: sanitizing a sanitized string changes nothing, and the sanitized
\* string is as long as the original and made of ASCII letters, digits,
\* hyphens and underscores only
C9_SafeIdempotent ==
    /\ \A s \in once :
         /\ Len(s) = Len(word)
         /\ \A i \in 1..Len(s) : s[i] \in AllowedChars
    /\ \A t \in twice : t \in once

C9_Witness ==
    /\ twice # {}
    /\ Len(word) = MaxLen
    /\ \E i \in 1..Len(word) : word[i] = "."
    /\ \E i \in 1..Len(word) : word[i] = "_"

---------------------------------------------------------------------------
(* Properties of one refresh, under SpecRefresh *)

Last(seq) == seq[Len(seq)]

\* a live resource: a running compute instance, an available database
IsLive(e) ==
    IF e.kind = "ec2" THEN e.res.state = "running" ELSE e.res.status = "available"

\* the primary address of a resource: for a compute instance in a subnet the
\* VPC attribute, for any other compute instance the default attribute, for
\* a database its endpoint
PrimaryAddress(e) ==
    IF e.kind = "rds" THEN e.res.endpoint
    ELSE IF e.res.subnet_id = "" THEN e.res.public_dns_name
         ELSE e.res.private_dns_name

Addressable(e) == IsLive(e) /\ PrimaryAddress(e) # ""

Entry(e) == <<e.region, e.res.id>>

\* the resources handed to the grouping step so far that are live and have
\* an address, by position
Placed == {i \in 1..Len(fetched) : Addressable(fetched[i])}

\* the last of them to resolve to address a
LastAt(a) ==
    CHOOSE i \in Placed :
        /\ PrimaryAddress(fetched[i]) = a
        /\ \A j \in Placed : PrimaryAddress(fetched[j]) = a => j <= i

RefreshComplete == pc[RP] = "print"

\* C2 as claimed: the index maps the address of every live addressable
\* resource to that resource's own (region, id)
C2_OwnEntry ==
    pc[RP] # "exited" =>
    \A i \in Placed :
        /\ PrimaryAddress(fetched[i]) \in DOMAIN index[RP]
        /\ index[RP][PrimaryAddress(fetched[i])] = Entry(fetched[i])

\* C2 as amended: the keys of the index are the addresses of the live
\* addressable resources, and each maps to the (region, id) of the last
\* resource processed that resolves to it
C2_LastWriterWins ==
    pc[RP] # "exited" =>
    /\ DOMAIN index[RP] = {PrimaryAddress(fetched[i]) : i \in Placed}
    /\ \A i \in Placed :
         index[RP][PrimaryAddress(fetched[i])]
            = Entry(fetched[LastAt(PrimaryAddress(fetched[i]))])

C2_Witness ==
    /\ RefreshComplete
    /\ \E i, j \in Placed :
         /\ i < j
         /\ fetched[i].kind = "ec2" /\ fetched[j].kind = "ec2"
         /\ PrimaryAddress(fetched[i]) = PrimaryAddress(fetched[j])
         /\ Entry(fetched[i]) # Entry(fetched[j])

\* C3 as claimed: once a connection has failed, in either fetcher, the
\* process has exited with a non-zero status (and so fetches nothing more)
C3_FailureIsFatal ==
    connFail # {} => pc[RP] = "exited" /\ exitCode[RP] # 0

\* C4: when the refresh has ended on a failed fetch, the two cache files
\* are as they were when it began and nothing has been printed; and the
\* files differ from what they were only after the loop over all regions
C4_NoPartialResults ==
    /\ (pc[RP] = "exited" /\ exitCode[RP] # 0 /\ connFail # {})
          => <<cacheFile, indexFile>> = files0 /\ out[RP] = NoOut
    /\ <<cacheFile, indexFile>> # files0 => region_i > Len(REGIONS)

C4_Witness ==
    /\ pc[RP] = "exited" /\ exitCode[RP] # 0
    /\ \E f \in connFail : f[1] = R2
    /\ \E i \in Placed : fetched[i].region = R1
    /\ files0[1].exists /\ cacheFile = files0[1] /\ indexFile = files0[2]

InGroup(a, g) == g \in DOMAIN inventory[RP] /\ a \in Members(inventory[RP][g])

\* C5 as claimed: every live addressable resource's address is a member of
\* its region group, its zone group and its type group
C5_GroupsKeepMembers ==
    pc[RP] # "exited" =>
    \A i \in Placed :
        LET e == fetched[i]
            zone == IF e.kind = "ec2" THEN e.res.placement ELSE e.res.availability_zone
            type == IF e.kind = "ec2" THEN e.res.instance_type ELSE e.res.instance_class
        IN /\ InGroup(PrimaryAddress(e), e.region)
           /\ InGroup(PrimaryAddress(e), zone)
           /\ InGroup(PrimaryAddress(e), to_safe(P_type \o type))

\* the domain names of the provider's zones that point at one of the four
\* address-bearing attributes of a compute instance
DnsNamesFor(instance) ==
    LET sets == UNION {Members(zones[z]) : z \in 1..Len(zones)}
        attrs == {instance[INSTANCE_ATTRIBUTES[k]] : k \in 1..Len(INSTANCE_ATTRIBUTES)}
    IN {rs.name : rs \in {x \in sets : Members(x.resource_records) \cap attrs # {}}}

\* C6 as claimed: with USE_ROUTE53 on, a refresh that meets no connection
\* failure does not fail, and every live addressable compute instance it
\* has processed is in the group of each domain name pointing at it
C6_DnsGroups ==
    use_route53 =>
        /\ (pc[RP] = "exited" /\ connFail = {}) => exitCode[RP] = 0
        /\ \A i \in Placed :
             (pc[RP] # "exited" /\ fetched[i].kind = "ec2") =>
                \A n \in DnsNamesFor(fetched[i].res) :
                    InGroup(PrimaryAddress(fetched[i]), n)

\* C8: handing a resource whose primary address is empty to add_instance or
\* add_rds_instance leaves the inventory and the index as they were
C8_UnaddressableNoEntries ==
    [][(fetched' # fetched /\ PrimaryAddress(Last(fetched')) = "")
          => (inventory' = inventory /\ index' = index)]_vars

C8_Witness ==
    /\ Len(fetched) = 2
    /\ inventory[RP] # EmptyDict
    /\ LET e == Last(fetched) IN
         /\ e.kind = "ec2" /\ IsLive(e)
         /\ PrimaryAddress(e) = ""
         /\ e.res.subnet_id = "" /\ e.res.private_dns_name # ""
    /\ Addressable(fetched[1])


---------------------------------------------------------------------------
(* Properties of the script from the command line on, under Spec *)

\* C1, as the code decides: without the forced-refresh flag the cache is
\* loaded if and only if both files exist and the cache file is strictly
\* younger than CACHE_MAX_AGE; in every other case the script refreshes.
C1_ValidIffYounger ==
    \A p \in Procs :
        chk[p].done =>
            /\ pc[p] = IF chk[p].took = "load" THEN "load_inv" ELSE "update_inventory"
            /\ ~chk[p].forced =>
                  (chk[p].took = "load" <=>
                     chk[p].cache /\ chk[p].index /\ chk[p].age < CACHE_MAX_AGE)

\* C1, as stated: without the forced-refresh flag the cache is loaded if
\* and only if both files exist and the age of the cache file is less than
\* or equal to CACHE_MAX_AGE, the boundary included.
C1_ValidIffNotOlder ==
    \A p \in Procs :
        chk[p].done /\ ~chk[p].forced =>
            (chk[p].took = "load" <=>
               chk[p].cache /\ chk[p].index /\ chk[p].age <= CACHE_MAX_AGE)

\* the boundary: both files exist, the cache file is exactly CACHE_MAX_AGE
\* old, no flag, and the script has gone on to refresh
C1_Witness ==
    \E p \in Procs :
        /\ chk[p].done /\ ~chk[p].forced
        /\ chk[p].cache /\ chk[p].index /\ chk[p].age = CACHE_MAX_AGE
        /\ pc[p] = "update_inventory"

\* C7: in single-host mode a host that is not a key of the index (the index
\* of a refresh, of the cache, or the one reread from the index file)
\* yields the empty object, without a call to the provider and without an
\* error.
C7_UnknownHostEmpty ==
    \A p \in Procs :
        /\ consulted[p].done
        /\ ~consulted[p].known
        /\ consulted[p].reread => consulted[p].readable
        => /\ out[p] = [kind |-> "host", doc |-> EmptyDict]
           /\ exitCode[p] = 0
           /\ ~consulted[p].called

\* an unknown host was asked for after a cache load whose index was empty
\* and was reread from the index file
C7_Witness ==
    \E p \in Procs :
        /\ consulted[p].done /\ ~consulted[p].known
        /\ consulted[p].how = "cache"
        /\ consulted[p].reread /\ consulted[p].readable
        /\ out[p] = [kind |-> "host", doc |-> EmptyDict]

\* the groups named after a resource id
PerIdGroups == {I1, I2, D1}

\* inv and idx are the inventory and the index of one and the same fetch
OneFetch(inv, idx) ==
    \E world \in Worlds :
        LET r == update_inventory_fetch(world, use_route53, zones) IN
        ~r.exit /\ r.st.inventory = inv /\ r.st.index = idx

\* the invocation in place p has loaded inventory and index from the cache
Loaded(p) == pc[p] = "print" /\ origin[p] = "cache"

PairConsistent(p) ==
    /\ OneFetch(inventory[p], index[p])
    /\ \A g \in DOMAIN inventory[p] \cap PerIdGroups :
         \A a \in Members(inventory[p][g]) : a \in DOMAIN index[p]

\* C10, as stated: whenever an invocation loads the cache, the inventory and
\* the index it has read are those of one refresh, and every address in a
\* per-id group of the inventory is a key of the index, whatever the
\* interleaving of two invocations and wherever a refresh was interrupted.
C10_LoadedPairConsistent ==
    \A p \in Procs : Loaded(p) => PairConsistent(p)

\* C10, as the code has it: the same, provided that so far no refresh was
\* cut short after it had opened the cache file and no two invocations ran
\* side by side.
C10_UndisturbedPairConsistent ==
    \A p \in Procs : Loaded(p) /\ ~disturbed => PairConsistent(p)

\* an undisturbed invocation has loaded a cache that lists a resource
C10_Witness ==
    \E p \in Procs :
        /\ Loaded(p) /\ ~disturbed
        /\ DOMAIN inventory[p] \cap PerIdGroups # {}

====
